---- MODULE Spec2Model ----
(***************************************************************************)
(* Voice RAG Search Assistant (src/app2.py; src/app.py holds the same      *)
(* functions in script form).                                              *)
(*                                                                         *)
(* The program is a Streamlit script: every interaction with a widget      *)
(* re-runs the script from the top against st.session_state.  A run that   *)
(* enters the recording progress loop stays there until the duration has   *)
(* elapsed or an interaction starts the next run, which abandons it.       *)
(***************************************************************************)
EXTENDS Integers, Sequences, FiniteSets, TLC

\* ---------------------------------------------------------------- bounds
MaxHits == 2          \* most hits the index answers with
MaxTempFiles == 1     \* most temporary files left on disk before the model stops failing
MaxSamples == 2       \* most samples of a capture buffer that save_audio is run on

\* ------------------------------------------------------ program constants
SAMPLE_RATE == 16000
DurationDefault == 15
TopKDefault == 10
DurationMin == 5
DurationMax == 60
TopKMin == 1
SampleBits == 16      \* dtype=np.int16
PeakNum == 9          \* the peak 0.9, as PeakNum / PeakDen
PeakDen == 10

\* The values the model draws for the two sliders (the duration's lowest,
\* default and highest value, top-K's lowest value and default) and for the
\* texts.
Durations == {DurationMin, DurationDefault, DurationMax}
TopKs == {TopKMin, TopKDefault}
Transcripts == {"", "soap"}            \* what the transcription answers
EditorTexts == {"", "soap", "oil"}     \* what the user leaves in the editor

\* Python's None (for a sequence, a text, a buffer) and a present value.
None == [some |-> FALSE, val |-> <<>>]
NoText == [some |-> FALSE, val |-> ""]
NoAudio == [some |-> FALSE, val |-> 0]
Some(v) == [some |-> TRUE, val |-> v]

Min(a, b) == IF a < b THEN a ELSE b

VARIABLES
    \* st.session_state
    audio_data, recording, transcript, processing, search_results,
    toast_shown, record_duration, top_k,
    \* widget values held by the front end
    slider_duration, slider_top_k, editor, editor_default,
    \* what is on the page
    shown_button, transcript_ui, results_view, sidebar_ui,
    \* environment: temporary files on disk, captures running on the device
    temp_files, captures,
    \* the script run: where it is, the widget that fired it, what it did
    pc, clicked, calls, shown, aborted,
    \* the most recent call of the search service
    last_search,
    \* the recording flag as each call of process_audio found it, for the
    \* capture last started
    processed,
    \* highlight_query_terms: its arguments, its locals, where it is
    hl_input, hl_query, hl_text, hl_terms, hl_term, hl_idx, hl_pc,
    \* the text as the current term's scan found it, the iterations of its while loop
    hl_base, hl_iters,
    \* save_audio's normalisation: the buffer, what is written, where it is
    norm_audio, norm_written, norm_pc

vars == <<audio_data, recording, transcript, processing, search_results,
          toast_shown, record_duration, top_k,
          slider_duration, slider_top_k, editor, editor_default,
          shown_button, transcript_ui, results_view, sidebar_ui,
          temp_files, captures, pc, clicked, calls, shown, aborted,
          last_search, processed, hl_input, hl_query, hl_text, hl_terms, hl_term, hl_idx,
          hl_pc, hl_base, hl_iters, norm_audio, norm_written, norm_pc>>

norm_vars == <<norm_audio, norm_written, norm_pc>>

hl_vars == <<hl_input, hl_query, hl_text, hl_terms, hl_term, hl_idx, hl_pc,
             hl_base, hl_iters>>

session_vars ==
    <<audio_data, recording, transcript, processing, search_results,
      toast_shown, record_duration, top_k,
      slider_duration, slider_top_k, editor, editor_default,
      shown_button, transcript_ui, results_view, sidebar_ui,
      temp_files, captures, pc, clicked, calls, shown, aborted, last_search,
      processed>>

\* The state a function of the script reads and writes, as one record.
Cur ==
    [audio_data |-> audio_data, recording |-> recording, transcript |-> transcript,
     processing |-> processing, search_results |-> search_results,
     toast_shown |-> toast_shown, record_duration |-> record_duration,
     top_k |-> top_k, slider_duration |-> slider_duration,
     slider_top_k |-> slider_top_k, editor |-> editor,
     editor_default |-> editor_default, shown_button |-> shown_button,
     transcript_ui |-> transcript_ui, results_view |-> results_view,
     sidebar_ui |-> sidebar_ui, temp_files |-> temp_files, captures |-> captures,
     pc |-> pc, clicked |-> clicked, calls |-> calls, shown |-> shown,
     aborted |-> aborted, last_search |-> last_search, processed |-> processed,
     live |-> TRUE, rerun |-> FALSE]

Commit(s) ==
    /\ audio_data' = s.audio_data
    /\ recording' = s.recording
    /\ transcript' = s.transcript
    /\ processing' = s.processing
    /\ search_results' = s.search_results
    /\ toast_shown' = s.toast_shown
    /\ record_duration' = s.record_duration
    /\ top_k' = s.top_k
    /\ slider_duration' = s.slider_duration
    /\ slider_top_k' = s.slider_top_k
    /\ editor' = s.editor
    /\ editor_default' = s.editor_default
    /\ shown_button' = s.shown_button
    /\ transcript_ui' = s.transcript_ui
    /\ results_view' = s.results_view
    /\ sidebar_ui' = s.sidebar_ui
    /\ temp_files' = s.temp_files
    /\ captures' = s.captures
    /\ pc' = s.pc
    /\ clicked' = s.clicked
    /\ calls' = s.calls
    /\ shown' = s.shown
    /\ aborted' = s.aborted
    /\ last_search' = s.last_search
    /\ processed' = s.processed
    /\ UNCHANGED hl_vars
    /\ UNCHANGED norm_vars

\* What a run did, in order: a call of an external service or device, or
\* the top-K setting stored (arg: the transcript stored at that moment).
Call(op, arg, k, raised, n) ==
    [op |-> op, arg |-> arg, k |-> k, raised |-> raised, n |-> n]

\* st.button: True in the run its click fired, for the button of that name.
Pressed(s, widget) == s.live /\ s.clicked = widget

\* st.error / st.toast / st.markdown: the message is added to the page.
Show(s, msg) == [s EXCEPT !.shown = Append(@, msg)]

\* ------------------------------------------------------------ external
\* The transcription: the file cannot be opened, the call raises, or a text.
TranscribeOutcomes ==
    {[kind |-> "open_error", text |-> ""], [kind |-> "api_error", text |-> ""]}
        \cup {[kind |-> "text", text |-> t] : t \in Transcripts}

\* The search service: the call raises, or it answers with n hits.
SearchOutcomes ==
    {[raised |-> TRUE, n |-> 0]} \cup {[raised |-> FALSE, n |-> n] : n \in 0..MaxHits}

\* The hits the index answers a query with: at most top_k, each the answer
\* to that query.
Hits(query, k, n) == [i \in 1..Min(n, k) |-> [query |-> query, rank |-> i]]

\* Whether a transcription outcome is allowed: a failure leaves a file
\* behind, and the model stops failing at MaxTempFiles files.
Allowed(tr) == tr.kind = "text" \/ temp_files < MaxTempFiles

\* ------------------------------------------------------------- functions
save_audio(s) == [s EXCEPT !.temp_files = @ + 1]

transcribe_audio(s, tr) ==
    IF tr.kind = "text"
    THEN [s |-> [s EXCEPT !.calls = Append(@, Call("transcribe", "", 0, FALSE, 0)),
                          !.temp_files = @ - 1],
          result |-> Some(tr.text)]
    ELSE IF tr.kind = "api_error"
    THEN [s |-> Show([s EXCEPT !.calls = Append(@, Call("transcribe", "", 0, TRUE, 0))],
                     "Transcription error"),
          result |-> NoText]
    ELSE [s |-> Show([s EXCEPT !.calls = Append(@, Call("open", "", 0, TRUE, 0))],
                     "Transcription error"),
          result |-> NoText]

\* ai_search with the exception swallowed and nothing shown.
ai_search_silent(s, query, k, so) ==
    [s |-> [s EXCEPT !.calls = Append(@, Call("search", query, k, so.raised,
                                              IF so.raised THEN 0 ELSE Min(so.n, k))),
                     !.last_search = Some([query |-> query, top_k |-> k,
                                           raised |-> so.raised,
                                           hits |-> IF so.raised THEN <<>>
                                                    ELSE Hits(query, k, so.n)])],
     results |-> IF so.raised THEN <<>> ELSE Hits(query, k, so.n)]

ai_search(s, query, k, so) ==
    LET s1 == [s EXCEPT !.calls = Append(@, Call("search", query, k, so.raised,
                                                 IF so.raised THEN 0 ELSE Min(so.n, k))),
                        !.last_search = Some([query |-> query, top_k |-> k,
                                              raised |-> so.raised,
                                              hits |-> IF so.raised THEN <<>>
                                                       ELSE Hits(query, k, so.n)])]
    IN  IF so.raised
        THEN [s |-> Show(s1, "Search error"), results |-> <<>>]
        ELSE [s |-> s1, results |-> Hits(query, k, so.n)]

\* perform_search with the results stored only when there are some.
perform_search_keep_old(s, query, so) ==
    LET r == ai_search(s, query, s.top_k, so)
    IN  IF r.results # <<>>
        THEN Show([r.s EXCEPT !.search_results = Some(r.results)], "toast: Found results")
        ELSE Show(r.s, "toast: No results found")

perform_search(s, query, so) ==
    LET r == ai_search(s, query, s.top_k, so)
        s1 == [r.s EXCEPT !.search_results = Some(r.results)]
    IN  IF r.results # <<>>
        THEN Show(s1, "toast: Found results")
        ELSE Show(s1, "toast: No results found")

\* record_audio sizing the buffer for the default duration.
record_audio_default_len(s, device_ok) ==
    IF ~device_ok
    THEN [s EXCEPT !.calls = Append(@, Call("rec", "", 0, TRUE, 0)),
                   !.aborted = TRUE]
    ELSE [s EXCEPT !.calls = Append(@, Call("rec", "", 0, FALSE, 0)),
                   !.captures = @ + 1,
                   !.audio_data = Some(SAMPLE_RATE * DurationDefault),
                   !.recording = TRUE,
                   !.processed = <<>>,
                   !.transcript = "",
                   !.search_results = None,
                   !.toast_shown = FALSE]

record_audio(s, device_ok) ==
    IF ~device_ok
    THEN [s EXCEPT !.calls = Append(@, Call("rec", "", 0, TRUE, 0)),
                   !.aborted = TRUE]
    ELSE [s EXCEPT !.calls = Append(@, Call("rec", "", 0, FALSE, 0)),
                   !.captures = @ + 1,
                   !.audio_data = Some(SAMPLE_RATE * s.record_duration),
                   !.recording = TRUE,
                   !.processed = <<>>,
                   !.transcript = "",
                   !.search_results = None,
                   !.toast_shown = FALSE]

\* Python's truth value of the transcription's result: None and "" are false.
Truthy(result) == result.some /\ result.val # ""

\* process_audio leaving the failure branch without clearing the flag.
process_audio_no_reset(s, tr, so) ==
    IF ~s.audio_data.some
    THEN [s EXCEPT !.processed = Append(@, s.recording)]
    ELSE LET s1 == save_audio([s EXCEPT !.processed = Append(@, s.recording),
                                        !.processing = TRUE])
             t == transcribe_audio(s1, tr)
         IN  IF Truthy(t.result)
             THEN LET a == [t.s EXCEPT !.transcript = t.result.val]
                      b == IF ~a.toast_shown
                           THEN [Show(a, "toast: Transcription complete")
                                    EXCEPT !.toast_shown = TRUE]
                           ELSE a
                  IN  [perform_search(b, t.result.val, so) EXCEPT !.processing = FALSE]
             ELSE Show(t.s, "Failed to transcribe audio")

process_audio(s, tr, so) ==
    IF ~s.audio_data.some
    THEN [s EXCEPT !.processed = Append(@, s.recording)]
    ELSE LET s1 == save_audio([s EXCEPT !.processed = Append(@, s.recording),
                                        !.processing = TRUE])
             t == transcribe_audio(s1, tr)
             s2 == IF Truthy(t.result)
                   THEN LET a == [t.s EXCEPT !.transcript = t.result.val]
                            b == IF ~a.toast_shown
                                 THEN [Show(a, "toast: Transcription complete")
                                          EXCEPT !.toast_shown = TRUE]
                                 ELSE a
                        IN  perform_search(b, t.result.val, so)
                   ELSE Show(t.s, "Failed to transcribe audio")
         IN  [s2 EXCEPT !.processing = FALSE]

\* stop_recording leaving the flag set when it calls process_audio.
stop_recording_flag_kept(s, tr, so) ==
    process_audio(Show([s EXCEPT !.captures = 0],
                       "toast: Recording stopped"), tr, so)

stop_recording(s, tr, so) ==
    process_audio(Show([s EXCEPT !.recording = FALSE, !.captures = 0],
                       "toast: Recording stopped"), tr, so)

\* ------------------------------------------------------------ the page
\* render_recording_ui, the buttons: the button drawn depends on the flag,
\* and a click counts only for the button this run draws.
\* render_recording_ui drawing both buttons whatever the flag.
render_recording_buttons_both(s, device_ok, tr, so) ==
    LET a == [s EXCEPT !.shown_button = IF s.recording THEN "stop" ELSE "start"]
    IN  IF Pressed(s, "stop") THEN stop_recording(a, tr, so)
        ELSE IF Pressed(s, "start") THEN record_audio(a, device_ok)
        ELSE a

render_recording_buttons(s, device_ok, tr, so) ==
    IF s.recording
    THEN LET a == [s EXCEPT !.shown_button = "stop"]
         IN  IF Pressed(s, "stop") THEN stop_recording(a, tr, so) ELSE a
    ELSE LET a == [s EXCEPT !.shown_button = "start"]
         IN  IF Pressed(s, "start") THEN record_audio(a, device_ok) ELSE a

\* render_recording_ui, after the progress loop: the duration has elapsed.
recording_timeout(s, tr, so) ==
    IF s.recording
    THEN process_audio(Show([s EXCEPT !.recording = FALSE, !.captures = 0],
                            "toast: Recording complete"), tr, so)
    ELSE s

\* The text area keeps the user's text while its default is unchanged and
\* starts from the default otherwise.
render_transcript_ui(s, so) ==
    IF s.transcript = ""
    THEN [s EXCEPT !.transcript_ui = FALSE, !.editor = "", !.editor_default = ""]
    ELSE LET keep == s.transcript_ui /\ s.editor_default = s.transcript
             a == [s EXCEPT !.transcript_ui = TRUE,
                            !.editor = IF keep THEN @ ELSE s.transcript,
                            !.editor_default = s.transcript]
         IN  IF Pressed(s, "search") THEN perform_search(a, a.editor, so) ELSE a

render_search_results(s) ==
    IF ~s.search_results.some \/ s.search_results.val = <<>>
    THEN [s EXCEPT !.results_view = "none"]
    ELSE IF Len(s.search_results.val) > 0
         THEN [s EXCEPT !.results_view = "list"]
         ELSE [s EXCEPT !.results_view = "empty_state"]

export_results(s) ==
    IF ~s.search_results.some \/ s.search_results.val = <<>>
    THEN Show(s, "toast: No results to export")
    ELSE Show(s, "toast: Export feature coming soon")

\* render_sidebar searching before it stores the new top-K.
render_sidebar_stale_k(s, so) ==
    LET duration == IF s.sidebar_ui THEN s.slider_duration ELSE s.record_duration
        k == IF s.sidebar_ui THEN s.slider_top_k ELSE s.top_k
        a == [s EXCEPT !.sidebar_ui = TRUE, !.slider_duration = duration,
                       !.slider_top_k = k]
        b == IF duration # a.record_duration
             THEN Show([a EXCEPT !.record_duration = duration],
                       "toast: Recording duration set")
             ELSE a
        c == IF k # b.top_k
             THEN LET c1 == Show([b EXCEPT !.calls = Append(@, Call("set_top_k",
                                                        b.transcript, k, FALSE, 0))],
                                 "toast: Top results set")
                      c2 == IF c1.transcript # ""
                            THEN perform_search(c1, c1.transcript, so)
                            ELSE c1
                  IN  [c2 EXCEPT !.top_k = k]
             ELSE b
    IN  IF Pressed(c, "new_search")
        THEN [c EXCEPT !.transcript = "", !.search_results = None, !.rerun = TRUE]
        ELSE IF Pressed(c, "export") THEN export_results(c) ELSE c

\* A slider drawn for the first time in a run starts from the stored value.
render_sidebar(s, so) ==
    LET duration == IF s.sidebar_ui THEN s.slider_duration ELSE s.record_duration
        k == IF s.sidebar_ui THEN s.slider_top_k ELSE s.top_k
        a == [s EXCEPT !.sidebar_ui = TRUE, !.slider_duration = duration,
                       !.slider_top_k = k]
        b == IF duration # a.record_duration
             THEN Show([a EXCEPT !.record_duration = duration],
                       "toast: Recording duration set")
             ELSE a
        c == IF k # b.top_k
             THEN LET c1 == Show([b EXCEPT !.top_k = k,
                                           !.calls = Append(@, Call("set_top_k",
                                                        b.transcript, k, FALSE, 0))],
                                 "toast: Top results set")
                  IN  IF c1.transcript # ""
                      THEN perform_search(c1, c1.transcript, so)
                      ELSE c1
             ELSE b
    IN  IF Pressed(c, "new_search")
        THEN [c EXCEPT !.transcript = "", !.search_results = None, !.rerun = TRUE]
        ELSE IF Pressed(c, "export") THEN export_results(c) ELSE c

\* main, from the transcript area on.
rest_of_page(s, so2, so3) ==
    [render_sidebar(render_search_results(render_transcript_ui(s, so2)), so3)
        EXCEPT !.pc = "idle"]

\* An exception nothing catches ends the run: the page keeps what was drawn
\* before it and the framework shows the traceback.
uncaught(s) ==
    [s EXCEPT !.pc = "idle", !.transcript_ui = FALSE, !.results_view = "none",
              !.sidebar_ui = FALSE]

\* One pass of main from the top, up to the progress loop or to the end.
script_pass(s, device_ok, tr, so1, so2, so3) ==
    LET a == render_recording_buttons(s, device_ok, tr, so1)
    IN  IF a.aborted THEN uncaught(a)
        ELSE IF a.recording THEN [a EXCEPT !.pc = "loop"]
        ELSE rest_of_page(a, so2, so3)

\* st.experimental_rerun: the script starts again as a new run, no widget
\* having fired.
rerun_if_asked(s) ==
    IF s.rerun
    THEN script_pass([s EXCEPT !.rerun = FALSE, !.live = FALSE, !.calls = <<>>,
                               !.shown = <<>>],
                     TRUE, [kind |-> "text", text |-> ""],
                     [raised |-> FALSE, n |-> 0], [raised |-> FALSE, n |-> 0],
                     [raised |-> FALSE, n |-> 0])
    ELSE s

\* A run of the script that a widget fired.
script_run(s, device_ok, tr, so1, so2, so3) ==
    rerun_if_asked(script_pass(s, device_ok, tr, so1, so2, so3))

\* The run that was in the progress loop, from the loop's exit to the end.
script_resume(s, tr, so1, so2, so3) ==
    rerun_if_asked(rest_of_page(recording_timeout(s, tr, so1), so2, so3))

\* The state a new run starts in: the widget that fired it, nothing done yet.
NewRun(s, widget) ==
    [s EXCEPT !.clicked = widget, !.calls = <<>>, !.shown = <<>>, !.aborted = FALSE]

\* The outcomes a run can meet at each of its three search calls.
NoHits == [raised |-> FALSE, n |-> 0]
SilentText == [kind |-> "text", text |-> ""]
ButtonSearch(widget) == IF widget = "search" THEN SearchOutcomes ELSE {NoHits}
SidebarSearch == IF slider_top_k # top_k THEN SearchOutcomes ELSE {NoHits}
AudioSearch(tr) == IF tr.kind = "text" /\ tr.text # "" THEN SearchOutcomes ELSE {NoHits}

\* ---------------------------------------------------------------- state
SessionInit ==
    /\ audio_data = NoAudio
    /\ recording = FALSE
    /\ transcript = ""
    /\ processing = FALSE
    /\ search_results = None
    /\ toast_shown = FALSE
    /\ record_duration = DurationDefault
    /\ top_k = TopKDefault
    /\ slider_duration = DurationDefault
    /\ slider_top_k = TopKDefault
    /\ editor = ""
    /\ editor_default = ""
    /\ shown_button = "start"
    /\ transcript_ui = FALSE
    /\ results_view = "none"
    /\ sidebar_ui = TRUE
    /\ temp_files = 0
    /\ captures = 0
    /\ pc = "idle"
    /\ clicked = "none"
    /\ calls = <<>>
    /\ shown = <<>>
    /\ aborted = FALSE
    /\ last_search = None
    /\ processed = <<>>

\* highlight_query_terms is not running.
HLIdle ==
    /\ hl_input = <<>>
    /\ hl_query = <<>>
    /\ hl_text = <<>>
    /\ hl_terms = <<>>
    /\ hl_term = <<>>
    /\ hl_idx = -1
    /\ hl_pc = "idle"
    /\ hl_base = <<>>
    /\ hl_iters = 0

\* save_audio's normalisation is not running.
NormIdle ==
    /\ norm_audio = <<>>
    /\ norm_written = <<>>
    /\ norm_pc = "idle"

Init == SessionInit /\ HLIdle /\ NormIdle

\* -------------------------------------------------------------- actions
PressStart ==
    /\ shown_button = "start"
    /\ \E device_ok \in BOOLEAN :
          Commit(script_run(NewRun(Cur, "start"), device_ok, SilentText,
                            NoHits, NoHits, NoHits))

PressStop ==
    /\ shown_button = "stop"
    /\ \E tr \in {t \in TranscribeOutcomes : Allowed(t)},
          so3 \in SidebarSearch :
       \E so1 \in AudioSearch(tr) :
          Commit(script_run(NewRun(Cur, "stop"), TRUE, tr, so1, NoHits, so3))

RecordingTimeout ==
    /\ pc = "loop"
    /\ \E tr \in {t \in TranscribeOutcomes : Allowed(t)},
          so2 \in ButtonSearch(clicked), so3 \in SidebarSearch :
       \E so1 \in AudioSearch(tr) :
          Commit(script_resume(Cur, tr, so1, so2, so3))

ChangeDuration ==
    /\ sidebar_ui
    /\ \E d \in Durations \ {slider_duration} :
          Commit(script_run(NewRun([Cur EXCEPT !.slider_duration = d], "duration"),
                            TRUE, SilentText, NoHits, NoHits, NoHits))

ChangeTopK ==
    /\ sidebar_ui
    /\ \E k \in TopKs \ {slider_top_k}, so3 \in SearchOutcomes :
          Commit(script_run(NewRun([Cur EXCEPT !.slider_top_k = k], "top_k"),
                            TRUE, SilentText, NoHits, NoHits, so3))

EditTranscript ==
    /\ transcript_ui
    /\ \E text \in EditorTexts \ {editor}, so3 \in SidebarSearch :
          Commit(script_run(NewRun([Cur EXCEPT !.editor = text], "editor"),
                            TRUE, SilentText, NoHits, NoHits, so3))

PressSearch ==
    /\ transcript_ui
    /\ \E so2 \in SearchOutcomes, so3 \in SidebarSearch :
          Commit(script_run(NewRun(Cur, "search"), TRUE, SilentText, NoHits, so2, so3))

PressNewSearch ==
    /\ sidebar_ui
    /\ \E so3 \in SidebarSearch :
          Commit(script_run(NewRun(Cur, "new_search"), TRUE, SilentText,
                            NoHits, NoHits, so3))

PressExport ==
    /\ sidebar_ui
    /\ \E so3 \in SidebarSearch :
          Commit(script_run(NewRun(Cur, "export"), TRUE, SilentText,
                            NoHits, NoHits, so3))

Next ==
    \/ PressStart
    \/ PressStop
    \/ RecordingTimeout
    \/ ChangeDuration
    \/ ChangeTopK
    \/ EditTranscript
    \/ PressSearch
    \/ PressNewSearch
    \/ PressExport

Spec == Init /\ [][Next]_vars

\* ------------------------------------------------ highlight_query_terms
\* A text is the sequence of its characters.
UpperCase == <<"A", "B", "C", "D", "E", "F", "G", "H", "I", "J", "K", "L", "M",
               "N", "O", "P", "Q", "R", "S", "T", "U", "V", "W", "X", "Y", "Z">>
LowerCase == <<"a", "b", "c", "d", "e", "f", "g", "h", "i", "j", "k", "l", "m",
               "n", "o", "p", "q", "r", "s", "t", "u", "v", "w", "x", "y", "z">>

\* str.lower
LowerChar(c) ==
    IF \E i \in DOMAIN UpperCase : UpperCase[i] = c
    THEN LowerCase[CHOOSE i \in DOMAIN UpperCase : UpperCase[i] = c]
    ELSE c
Lower(text) == [i \in 1..Len(text) |-> LowerChar(text[i])]

\* str.split(): the maximal runs of characters that are not white space.
RECURSIVE SplitFrom(_, _, _, _)
SplitFrom(text, i, word, words) ==
    IF i > Len(text)
    THEN IF word = <<>> THEN words ELSE Append(words, word)
    ELSE IF text[i] = " "
         THEN SplitFrom(text, i + 1, <<>>,
                        IF word = <<>> THEN words ELSE Append(words, word))
         ELSE SplitFrom(text, i + 1, Append(word, text[i]), words)
Split(text) == SplitFrom(text, 1, <<>>, <<>>)

\* Whether sub occurs in text at the 0-based index i.
OccursAt(text, sub, i) ==
    /\ i >= 0
    /\ i + Len(sub) <= Len(text)
    /\ SubSeq(text, i + 1, i + Len(sub)) = sub

\* str.find(sub, start): the lowest index from start on where sub occurs, or -1.
Find(text, sub, start) ==
    LET at == {i \in start..(Len(text) - Len(sub)) : OccursAt(text, sub, i)}
    IN  IF at = {} THEN -1 ELSE CHOOSE i \in at : \A j \in at : i <= j

MarkerOpen ==
    <<"<", "s", "p", "a", "n", " ", "c", "l", "a", "s", "s", "=", "\"",
      "h", "i", "g", "h", "l", "i", "g", "h", "t", "\"", ">">>
MarkerClose == <<"<", "/", "s", "p", "a", "n", ">">>
Marker(original) == MarkerOpen \o original \o MarkerClose

\* The texts and queries highlight_query_terms is run on.
HLTexts ==
    {<<>>, <<"S", "o", "a", "p">>, <<"s", "o", "a", "p", " ", "S", "O", "A", "P">>, <<"s", "h", "a", "m", "p", "o", "o">>, <<"a", "a", "a", "a">>}
HLQueries ==
    {<<>>, <<"s", "o", "a", "p">>, <<"S", "O", "A", "P">>, <<"s", "o", " ", "a", "p">>, <<"a", "a", "a">>,
     <<"s", "o", "a", "p", " ", "s", "o", "a", "p">>,
     <<"s", "h", "a", "m", " ", "s", "h", "a", "m", "p", "o", "o">>,
     <<"s", "o", "a", "p", " ", "s", "p", "a", "n">>,
     <<" ", "s", "o", "a", "p", " ", " ", "o", "i", "l", " ">>}

\* The call: text and query are bound.
HLCall ==
    /\ hl_pc = "idle"
    /\ \E text \in HLTexts, query \in HLQueries :
          /\ hl_input' = text
          /\ hl_query' = query
          /\ hl_text' = text
    /\ hl_pc' = "enter"
    /\ UNCHANGED <<hl_terms, hl_term, hl_idx, hl_base, hl_iters>>
    /\ UNCHANGED session_vars
    /\ UNCHANGED norm_vars

\* if not query or not text: return text; else query_terms is split off.
HLEnter ==
    /\ hl_pc = "enter"
    /\ IF hl_query = <<>> \/ hl_text = <<>>
       THEN hl_pc' = "done" /\ UNCHANGED hl_terms
       ELSE hl_pc' = "for" /\ hl_terms' = Split(Lower(hl_query))
    /\ UNCHANGED <<hl_input, hl_query, hl_text, hl_term, hl_idx, hl_base, hl_iters>>
    /\ UNCHANGED session_vars
    /\ UNCHANGED norm_vars

\* for term in query_terms: the next term, and its first find if it is
\* longer than two characters; return text after the last term.
HLNextTerm ==
    /\ hl_pc = "for"
    /\ IF hl_terms = <<>>
       THEN hl_pc' = "done" /\ UNCHANGED <<hl_terms, hl_term, hl_idx, hl_base, hl_iters>>
       ELSE /\ hl_term' = Head(hl_terms)
            /\ hl_terms' = Tail(hl_terms)
            /\ hl_base' = hl_text
            /\ hl_iters' = 0
            /\ IF Len(Head(hl_terms)) > 2
               THEN /\ hl_idx' = Find(Lower(hl_text), Lower(Head(hl_terms)), 0)
                    /\ hl_pc' = "while"
               ELSE UNCHANGED <<hl_idx, hl_pc>>
    /\ UNCHANGED <<hl_input, hl_query, hl_text>>
    /\ UNCHANGED session_vars
    /\ UNCHANGED norm_vars

\* The while loop looking for the next occurrence one character on, not
\* behind the marker.
HLWrap_no_advance ==
    /\ hl_pc = "while"
    /\ hl_idx # -1
    /\ LET original == SubSeq(hl_text, hl_idx + 1, hl_idx + Len(hl_term))
           text == SubSeq(hl_text, 1, hl_idx) \o Marker(original)
                      \o SubSeq(hl_text, hl_idx + Len(hl_term) + 1, Len(hl_text))
       IN  /\ hl_text' = text
           /\ hl_idx' = Find(Lower(text), Lower(hl_term), hl_idx + 1)
    /\ hl_iters' = hl_iters + 1
    /\ UNCHANGED <<hl_input, hl_query, hl_terms, hl_term, hl_pc, hl_base>>
    /\ UNCHANGED session_vars
    /\ UNCHANGED norm_vars

\* One iteration of while idx != -1: the occurrence is wrapped and the next
\* one is looked for from behind the marker.
HLWrap ==
    /\ hl_pc = "while"
    /\ hl_idx # -1
    /\ LET original == SubSeq(hl_text, hl_idx + 1, hl_idx + Len(hl_term))
           text == SubSeq(hl_text, 1, hl_idx) \o Marker(original)
                      \o SubSeq(hl_text, hl_idx + Len(hl_term) + 1, Len(hl_text))
       IN  /\ hl_text' = text
           /\ hl_idx' = Find(Lower(text), Lower(hl_term),
                             hl_idx + Len(Marker(original)))
    /\ hl_iters' = hl_iters + 1
    /\ UNCHANGED <<hl_input, hl_query, hl_terms, hl_term, hl_pc, hl_base>>
    /\ UNCHANGED session_vars
    /\ UNCHANGED norm_vars

\* The while loop ends: idx = -1.
HLEndWhile ==
    /\ hl_pc = "while"
    /\ hl_idx = -1
    /\ hl_pc' = "for"
    /\ UNCHANGED <<hl_input, hl_query, hl_text, hl_terms, hl_term, hl_idx,
                   hl_base, hl_iters>>
    /\ UNCHANGED session_vars
    /\ UNCHANGED norm_vars

HLNext ==
    \/ HLCall
    \/ HLEnter
    \/ HLNextTerm
    \/ HLWrap
    \/ HLEndWhile

SpecHL == Init /\ [][HLNext]_vars

\* A call of highlight_query_terms keeps running until it returns.
HLRun ==
    \/ HLEnter
    \/ HLNextTerm
    \/ HLWrap
    \/ HLEndWhile

SpecHLFair == SpecHL /\ WF_vars(HLRun)

\* ------------------------------------------- save_audio: normalisation
\* np.int16 arithmetic: results wrap round to SampleBits bits.
Int16Min == -(2 ^ (SampleBits - 1))
Int16Max == 2 ^ (SampleBits - 1) - 1
Wrap16(v) == ((v - Int16Min) % (2 ^ SampleBits)) + Int16Min

\* np.abs on an int16 array: the absolute value, in int16.
Abs16(x) == Wrap16(IF x < 0 THEN -x ELSE x)

\* np.max
MaxOf(values) ==
    CHOOSE m \in {values[i] : i \in DOMAIN values} :
        \A i \in DOMAIN values : values[i] <= m

\* A sample as written to the file: the fraction num / den of full peak.
\* audio / np.max(np.abs(audio)) * 0.9 is sample * 0.9 / max; a buffer left
\* as it is stays the int16 samples sd.rec delivered.
normalize(audio) ==
    LET peak == MaxOf([i \in DOMAIN audio |-> Abs16(audio[i])])
    IN  IF peak > 0
        THEN [scaled |-> TRUE,
              samples |-> [i \in DOMAIN audio |->
                              [num |-> audio[i] * PeakNum, den |-> peak * PeakDen]]]
        ELSE [scaled |-> FALSE,
              samples |-> [i \in DOMAIN audio |-> [num |-> audio[i], den |-> 1]]]

\* The sample values and the buffers save_audio is run on.
SampleValues == {Int16Min, Int16Min + 1, -100, 0, 1, 100, Int16Max}
RECURSIVE BuffersOfLen(_)
BuffersOfLen(n) ==
    IF n = 0 THEN {<<>>}
    ELSE {Append(b, x) : b \in BuffersOfLen(n - 1), x \in SampleValues}
Buffers == UNION {BuffersOfLen(n) : n \in 1..MaxSamples}

\* save_audio is called: audio = st.session_state.audio_data.
NormCall ==
    /\ norm_pc = "idle"
    /\ \E audio \in Buffers : norm_audio' = audio
    /\ norm_pc' = "called"
    /\ UNCHANGED norm_written
    /\ UNCHANGED <<session_vars, hl_vars>>

\* The buffer is normalised and written.
NormWrite ==
    /\ norm_pc = "called"
    /\ norm_written' = normalize(norm_audio)
    /\ norm_pc' = "written"
    /\ UNCHANGED norm_audio
    /\ UNCHANGED <<session_vars, hl_vars>>

NormNext ==
    \/ NormCall
    \/ NormWrite

SpecNorm == Init /\ [][NormNext]_vars

\* ------------------------------------------------------------ properties
Failed(c) == c.op \in {"transcribe", "open"} /\ c.raised
Count(seq, P(_)) == Cardinality({i \in DOMAIN seq : P(seq[i])})
IsSearch(c) == c.op = "search"
IsRaisedSearch(c) == c.op = "search" /\ c.raised
IsTranscription(c) == c.op \in {"transcribe", "open"}
IsCaptureFailure(c) == c.op = "rec" /\ c.raised
IsSearchError(m) == m = "Search error"
Messages == {shown[i] : i \in DOMAIN shown}
Last(seq) == seq[Len(seq)]

\* C1: every temporary file save_audio created is gone once transcribe_audio
\* has returned, whether the transcription succeeded or raised; no run leaves
\* a temporary file behind.
C1_NoTempFileLeft == temp_files = 0

\* C2: search_results, when present, is the hit sequence the search service
\* returned for the most recently issued query, each hit an answer to that
\* query; while a recording is active and after New Search it is absent.
C2_ResultsOfLatestQuery ==
    /\ search_results.some =>
          /\ last_search.some
          /\ search_results.val = last_search.val.hits
          /\ \A i \in DOMAIN search_results.val :
                search_results.val[i].query = last_search.val.query
    /\ recording => ~search_results.some
    /\ (clicked = "new_search" /\ pc = "idle") => ~search_results.some

\* The results of the edited query "oil" have replaced those of the
\* transcript "soap".
C2_Witness ==
    /\ transcript = "soap"
    /\ search_results.some
    /\ Len(search_results.val) = MaxHits
    /\ search_results.val[1].query = "oil"

\* C3: a run that finds the top-K slider different from the stored top_k
\* stores the new value; with a non-empty stored transcript it then issues
\* exactly one search, for that transcript with the new top_k, whose hits
\* replace search_results; with an empty transcript it issues no search.
C3_TopKChangeSearches ==
    /\ (pc = "idle" /\ ~aborted) => top_k = slider_top_k
    /\ \A i \in DOMAIN calls :
          calls[i].op = "set_top_k" =>
             /\ top_k = calls[i].k
             /\ Count(calls, LAMBDA c : c.op = "set_top_k") = 1
             /\ IF calls[i].arg # ""
                THEN /\ Len(calls) = i + 1
                     /\ calls[i + 1].op = "search"
                     /\ calls[i + 1].arg = calls[i].arg
                     /\ calls[i + 1].k = calls[i].k
                     /\ Count(calls, LAMBDA c : IsSearch(c) /\ c.k = calls[i].k) = 1
                     /\ clicked # "new_search" =>
                           /\ transcript = calls[i].arg
                           /\ last_search.val.query = transcript
                           /\ last_search.val.top_k = top_k
                           /\ search_results = Some(last_search.val.hits)
                ELSE Len(calls) = i

\* The slider was moved during a recording; the run that ended the recording
\* searched with the old top_k and then again with the new one.
C3_Witness ==
    /\ Len(calls) = 4
    /\ calls[2].op = "search" /\ calls[2].k = TopKDefault
    /\ calls[3].op = "set_top_k" /\ calls[3].arg = "soap"
    /\ calls[4].op = "search" /\ calls[4].k = TopKMin
    /\ Len(search_results.val) = TopKMin

\* C4: at most one capture is running at any time: record_audio starts one
\* only while the recording flag is False.
C4_OneRecording ==
    /\ captures <= 1
    /\ recording => captures = 1
    /\ pc = "loop" => recording

\* Start was clicked while a recording was active: the run drew the Stop
\* button and started nothing.
C4_Witness ==
    /\ recording
    /\ clicked = "start"
    /\ shown_button = "stop"
    /\ calls = <<>>

\* C5: a search call that raises makes ai_search return the empty sequence
\* and show "Search error", which a search without matches does not show;
\* perform_search stores the empty sequence and the run goes on.
C5_SearchErrorShown ==
    /\ Count(calls, IsRaisedSearch) = Count(shown, IsSearchError)
    /\ (calls # <<>> /\ IsRaisedSearch(Last(calls))) =>
          /\ search_results = Some(<<>>)
          /\ ~aborted
          /\ pc = "idle"

C5_Witness ==
    /\ calls # <<>>
    /\ IsRaisedSearch(Last(calls))
    /\ search_results = Some(<<>>)
    /\ "Search error" \in Messages

\* C6: "Failed to transcribe audio" is shown only when the transcription
\* failed, not when it succeeded with an empty text.
C6_FailureDistinctFromEmpty ==
    "Failed to transcribe audio" \in Messages => \E i \in DOMAIN calls : Failed(calls[i])

\* C7: after a run whose transcription failed the transcript is empty,
\* search_results is absent, the run has issued no search, the
\* transcription was attempted once and processing is False.
C7_FailedTranscription ==
    (\E i \in DOMAIN calls : Failed(calls[i])) =>
        /\ transcript = ""
        /\ ~search_results.some
        /\ Count(calls, IsSearch) = 0
        /\ Count(calls, IsTranscription) = 1
        /\ processing = FALSE

\* The transcription of a recording raised, with results of an earlier
\* search on the page before the recording.
C7_Witness ==
    /\ \E i \in DOMAIN calls : calls[i].op = "transcribe" /\ calls[i].raised
    /\ last_search.some
    /\ "Failed to transcribe audio" \in Messages
    /\ pc = "idle"

\* C8: a capture that fails at Start Recording is caught and shown as an
\* inline error: the run is not ended by the exception, and recording stays
\* False.
C8_CaptureFailureCaught ==
    (\E i \in DOMAIN calls : IsCaptureFailure(calls[i])) =>
        /\ ~aborted
        /\ "Recording error" \in Messages
        /\ ~recording

\* C9: when a search that succeeded left search_results empty, the results
\* view drawn after it shows the empty-state message and no error.
C9_EmptyStateShown ==
    (/\ pc = "idle"
     /\ ~aborted
     /\ calls # <<>>
     /\ IsSearch(Last(calls)) /\ ~Last(calls).raised /\ Last(calls).n = 0
     /\ Count(calls, LAMBDA c : c.op = "set_top_k") = 0
     /\ search_results = Some(<<>>)) =>
        /\ results_view = "empty_state"
        /\ "Search error" \notin Messages

\* The markers of a highlighted text: where they start, what they wrap.
Opens(text) == {i \in 0..Len(text) : OccursAt(text, MarkerOpen, i)}
Closes(text) == {i \in 0..Len(text) : OccursAt(text, MarkerClose, i)}
NextClose(text, i) ==
    CHOOSE j \in Closes(text) : j > i /\ \A m \in Closes(text) : m > i => j <= m
Wrapped(text, i) ==
    SubSeq(text, i + Len(MarkerOpen) + 1, NextClose(text, i))

\* Opening and closing markers alternate: none starts inside another.
NoNestedMarkers(text) ==
    /\ \A i \in Opens(text) :
          \E j \in Closes(text) :
             /\ j > i
             /\ \A m \in Opens(text) \cup Closes(text) : ~(i < m /\ m < j)
    /\ \A j \in Closes(text) :
          \E i \in Opens(text) :
             /\ i < j
             /\ \A m \in Opens(text) \cup Closes(text) : ~(i < m /\ m < j)

\* The text with its markers taken out.
RECURSIVE StripFrom(_, _)
StripFrom(text, i) ==
    IF i >= Len(text) THEN <<>>
    ELSE IF OccursAt(text, MarkerOpen, i) THEN StripFrom(text, i + Len(MarkerOpen))
    ELSE IF OccursAt(text, MarkerClose, i) THEN StripFrom(text, i + Len(MarkerClose))
    ELSE <<text[i + 1]>> \o StripFrom(text, i + 1)
StripMarkers(text) == StripFrom(text, 0)

QualifyingTerms(query) ==
    {w \in {Split(Lower(query))[i] : i \in DOMAIN Split(Lower(query))} : Len(w) > 2}

\* C10: in the text highlight_query_terms returns, markers are never nested
\* or overlapping, each wraps one occurrence of a query token longer than
\* two characters, and the text is otherwise the snippet it was given.
C10_MarkersWellFormed ==
    hl_pc = "done" =>
        /\ NoNestedMarkers(hl_text)
        /\ \A i \in Opens(hl_text) :
              Lower(Wrapped(hl_text, i)) \in QualifyingTerms(hl_query)
        /\ StripMarkers(hl_text) = hl_input

AbsInt(x) == IF x < 0 THEN -x ELSE x

\* C11: a buffer with a non-zero sample is written scaled, every sample at
\* most 0.9 of full peak in absolute value, also when it holds -32768; an
\* all-zero buffer is written as it is.
C11_PeakAtMost09 ==
    norm_pc = "written" =>
        IF \E i \in DOMAIN norm_audio : norm_audio[i] # 0
        THEN /\ norm_written.scaled
             /\ \A i \in DOMAIN norm_written.samples :
                   LET w == norm_written.samples[i]
                   IN  /\ w.den > 0
                       /\ AbsInt(w.num) * PeakDen <= PeakNum * w.den
        ELSE /\ ~norm_written.scaled
             /\ \A i \in DOMAIN norm_audio : norm_written.samples[i].num = 0

\* C12: while a recording is active the capture buffer has SAMPLE_RATE
\* samples for each second of the stored record_duration, whatever the
\* sliders were moved to meanwhile; the duration lies in its slider's range.
C12_BufferMatchesDuration ==
    /\ record_duration \in DurationMin..DurationMax
    /\ recording =>
          /\ audio_data.some
          /\ audio_data.val = SAMPLE_RATE * record_duration

\* A recording of the longest duration is active and the duration slider
\* has been moved since it started.
C12_Witness ==
    /\ recording
    /\ record_duration = DurationMax
    /\ slider_duration # record_duration
    /\ audio_data.val = SAMPLE_RATE * DurationMax

\* C13: after the user has edited the transcript field and pressed Search,
\* the stored transcript is the text that was searched for.
C13_EditStored ==
    (/\ clicked = "search"
     /\ pc = "idle"
     /\ calls # <<>>
     /\ IsSearch(Last(calls))
     /\ Count(calls, LAMBDA c : c.op = "set_top_k") = 0) =>
        transcript = Last(calls).arg

\* The places where the term occurs in the text its scan started on.
Occurrences(text, term) ==
    {i \in 0..Len(text) : OccursAt(Lower(text), Lower(term), i)}

====
